---- MODULE Spec2Model ----
(***************************************************************************)
(* Model of src/align_uv_islands_by_longest_edge.py: the operator          *)
(* UV_OT_align_by_longest_edge.execute, process_object, the island         *)
(* builder and the per-island alignment (longest edge, centroid, rotate).  *)
(*                                                                         *)
(* Numbers.  A Python float is modelled by an exact rational <<n, d>> in   *)
(* lowest terms with d > 0; a UV coordinate is a pair <<x, y>> of them.    *)
(* An angle is modelled by the pair <<cos, sin>> that math.cos and         *)
(* math.sin return for it.  The input faces are chosen so that every UV    *)
(* edge has a rational length, which makes Vector.length, atan2, cos and   *)
(* sin exact.  Rounding of floats is outside the model.                    *)
(***************************************************************************)
EXTENDS Integers, Sequences, FiniteSets, TLC

\* ------------------------------------------------------------- bounds
MaxFaces == 3
MaxObjs == 3
MaxRuns == 2

\* ------------------------------------------------- exact arithmetic
Abs(n) == IF n < 0 THEN -n ELSE n

RECURSIVE GCD(_, _)
GCD(a, b) == IF b = 0 THEN a ELSE GCD(b, a % b)

Rat(n, d) ==
    LET g == GCD(Abs(n), d)
    IN  IF n = 0 THEN <<0, 1>> ELSE <<n \div g, d \div g>>

RInt(n) == <<n, 1>>
RAdd(a, b) == Rat(a[1] * b[2] + b[1] * a[2], a[2] * b[2])
RNeg(a) == <<-a[1], a[2]>>
RSub(a, b) == RAdd(a, RNeg(b))
RMul(a, b) == Rat(a[1] * b[1], a[2] * b[2])
RLt(a, b) == a[1] * b[2] < b[1] * a[2]
RInv(a) == IF a[1] > 0 THEN <<a[2], a[1]>> ELSE <<-a[2], -a[1]>>
RDiv(a, b) == RMul(a, RInv(b))

RECURSIVE ISqrtFrom(_, _)
ISqrtFrom(k, r) == IF r * r >= k THEN r ELSE ISqrtFrom(k, r + 1)

\* math.sqrt on a rational whose numerator and denominator are squares
RSqrt(a) == <<ISqrtFrom(a[1], 0), ISqrtFrom(a[2], 0)>>

\* ------------------------------------------------------ mathutils.Vector
Vec(x, y) == <<RInt(x), RInt(y)>>
VSub(v, u) == <<RSub(v[1], u[1]), RSub(v[2], u[2])>>
LengthSquared(d) == RAdd(RMul(d[1], d[1]), RMul(d[2], d[2]))
Length(d) == RSqrt(LengthSquared(d))

\* Python's tuple comparison (a.x, a.y) < (b.x, b.y)
PtLt(a, b) == RLt(a[1], b[1]) \/ (a[1] = b[1] /\ RLt(a[2], b[2]))

\* ------------------------------------------------------- generic helpers
RECURSIVE SetToSeq(_)
SetToSeq(S) ==
    IF S = {} THEN <<>>
    ELSE LET m == CHOOSE x \in S : \A y \in S : x <= y
         IN  <<m>> \o SetToSeq(S \ {m})

Range(s) == {s[i] : i \in 1..Len(s)}

\* every ordering of a finite set, as sequences without repetition
Orders(S) ==
    {o \in [1..Cardinality(S) -> S] : \A i, j \in 1..Cardinality(S) : i # j => o[i] # o[j]}

\* ---------------------------------------------------- _face_uv_edge_keys
\* lines 41-44: the order-independent key of the edge (a, b)
EdgeKey(a, b) == IF PtLt(a, b) THEN <<a, b>> ELSE <<b, a>>

\* the loop after loop i in a face's cycle: loops[(i + 1) % n]
NextLoop(face, i) == face[(i % Len(face)) + 1]

\* tol is 0.0 at the only call site (line 58), so lines 38-39 apply
FaceUVEdgeKeys(face) ==
    [i \in 1..Len(face) |-> EdgeKey(face[i], NextLoop(face, i))]

\* --------------------------------------------------------- _build_islands
\* every face, whatever its selection
InputFacesAll(sel, respect_selection) == [i \in 1..Len(sel) |-> i]

\* line 52: the faces the build works on, in bm.faces order
InputFaces(sel, respect_selection) ==
    SelectSeq([i \in 1..Len(sel) |-> i], LAMBDA f : IF respect_selection THEN sel[f] ELSE TRUE)

\* lines 56-59: edge_map as the sequence of its insertions <<key, face>>;
\* edge_map[key] is the subsequence of the entries with that key
RECURSIVE EdgeMapEntries(_, _)
EdgeMapEntries(uvs, faces) ==
    IF faces = <<>> THEN <<>>
    ELSE LET f == Head(faces)
             keys == FaceUVEdgeKeys(uvs[f])
         IN  [i \in 1..Len(keys) |-> <<keys[i], f>>] \o EdgeMapEntries(uvs, Tail(faces))

\* a one-way adjacency: only nbrs[fi].add(fj), without line 70
NbrsOneWay(entries, f) ==
    {entries[j][2] : j \in {j \in 1..Len(entries) :
        \E i \in 1..(j - 1) : entries[i][1] = entries[j][1] /\ entries[i][2] = f}}

\* lines 62-70: nbrs[f]
Nbrs(entries, f) ==
    {entries[j][2] : j \in {j \in 1..Len(entries) :
        \E i \in 1..Len(entries) :
            i # j /\ entries[i][1] = entries[j][1] /\ entries[i][2] = f}}

\* lines 81-87: the traversal from one seed, by an explicit stack
RECURSIVE Traverse(_, _, _, _)
Traverse(entries, stack, comp, seen) ==
    IF stack = <<>> THEN <<comp, seen>>
    ELSE LET cur == stack[Len(stack)]
             new == Nbrs(entries, cur) \ seen
         IN  Traverse(entries, SubSeq(stack, 1, Len(stack) - 1) \o SetToSeq(new),
                      comp \cup {cur}, seen \cup new)

\* lines 73-89: one component per face not seen yet, in input order
RECURSIVE IslandLoop(_, _, _, _)
IslandLoop(entries, faces, out, seen) ==
    IF faces = <<>> THEN out
    ELSE LET f == Head(faces)
         IN  IF f \in seen THEN IslandLoop(entries, Tail(faces), out, seen)
             ELSE LET r == Traverse(entries, <<f>>, {}, seen \cup {f})
                  IN  IslandLoop(entries, Tail(faces), Append(out, r[1]), r[2])

BuildIslands(uvs, sel, respect_selection) ==
    LET faces == InputFaces(sel, respect_selection)
    IN  IF faces = <<>> THEN <<>>
        ELSE IslandLoop(EdgeMapEntries(uvs, faces), faces, <<>>, {})

\* ------------------------------------------------ _island_longest_edge_uv
\* lines 97-113, over the faces in the order `ord` the set yields them;
\* st = <<max_len, best, seen_keys>>
RECURSIVE LongestScan(_, _, _, _, _)
LongestScan(uvs, ord, fi, li, st) ==
    IF fi > Len(ord) THEN st[2]
    ELSE IF li > Len(uvs[ord[fi]]) THEN LongestScan(uvs, ord, fi + 1, 1, st)
    ELSE LET face == uvs[ord[fi]]
             u == face[li]
             v == NextLoop(face, li)
             key == EdgeKey(u, v)
             L == Length(VSub(v, u))
         IN  IF key \in st[3] THEN LongestScan(uvs, ord, fi, li + 1, st)
             ELSE IF RLt(st[1], L)
                  THEN LongestScan(uvs, ord, fi, li + 1, <<L, <<u, v>>, st[3] \cup {key}>>)
                  ELSE LongestScan(uvs, ord, fi, li + 1, <<st[1], st[2], st[3] \cup {key}>>)

IslandLongestEdgeUV(uvs, ord) ==
    LongestScan(uvs, ord, 1, 1, <<RInt(-1), <<Vec(0, 0), Vec(1, 0)>>, {}>>)

\* the results of line 155 over the orders in which the set of faces (hashed
\* by address) may be iterated
FoundEdges(uvs, isl) == {IslandLongestEdgeUV(uvs, ord) : ord \in Orders(isl)}

\* --------------------------------------------------- _island_centroid_uv
RECURSIVE VSum(_)
VSum(P) ==
    IF P = {} THEN Vec(0, 0)
    ELSE LET p == CHOOSE q \in P : TRUE
             r == VSum(P \ {p})
         IN  <<RAdd(r[1], p[1]), RAdd(r[2], p[2])>>

IslandCentroidUV(uvs, isl) ==
    LET uniq == UNION {Range(uvs[f]) : f \in isl}
        s == VSum(uniq)
        c == RDiv(RInt(1), RInt(Cardinality(uniq)))
    IN  IF uniq = {} THEN Vec(0, 0) ELSE <<RMul(s[1], c), RMul(s[2], c)>>

\* ------------------------------------------------------------- angles
\* math.atan2(y, x), as the <<cos, sin>> of the angle; atan2(0, 0) is 0
Atan2(y, x) ==
    LET L == Length(<<x, y>>)
    IN  IF L = RInt(0) THEN <<RInt(1), RInt(0)>> ELSE <<RDiv(x, L), RDiv(y, L)>>

NegAngle(a) == <<a[1], RNeg(a[2])>>
Cos(a) == a[1]
Sin(a) == a[2]
ZeroAngle == <<RInt(1), RInt(0)>>

\* atan2 with its arguments exchanged
AlignAngleSwapped(d) == NegAngle(Atan2(d[1], d[2]))

\* line 159: ang = -math.atan2(d.y, d.x)
AlignAngle(d) == NegAngle(Atan2(d[2], d[1]))

\* a zero-length test that never skips
IsZeroEdgeNever(d) == FALSE

\* line 157: d.length_squared == 0.0
IsZeroEdge(d) == LengthSquared(d) = RInt(0)

\* --------------------------------------------------------- _rotate_island
\* lines 139-145 for one loop
RotatePoint(uv, ca, sa, pivot) ==
    LET x == RSub(uv[1], pivot[1])
        y == RSub(uv[2], pivot[2])
        rx == RSub(RMul(x, ca), RMul(y, sa))
        ry == RAdd(RMul(x, sa), RMul(y, ca))
    IN  <<RAdd(rx, pivot[1]), RAdd(ry, pivot[2])>>

\* each face turned about its own centroid instead of the island's pivot
RotateIslandPerFace(uvs, isl, angle_rad, pivot) ==
    [f \in 1..Len(uvs) |->
        IF f \in isl
        THEN [l \in 1..Len(uvs[f]) |->
                RotatePoint(uvs[f][l], Cos(angle_rad), Sin(angle_rad),
                            IslandCentroidUV(uvs, {f}))]
        ELSE uvs[f]]

\* lines 133-145: the UV layer after rotating the island's loops
RotateIsland(uvs, isl, angle_rad, pivot) ==
    LET ca == Cos(angle_rad)
        sa == Sin(angle_rad)
    IN  [f \in 1..Len(uvs) |->
            IF f \in isl
            THEN [l \in 1..Len(uvs[f]) |-> RotatePoint(uvs[f][l], ca, sa, pivot)]
            ELSE uvs[f]]

\* ------------------------------------------------------- _groups_by_mesh
\* index of the group whose key is mesh-data identity `key`, or 0
GroupOf(obs, gs, key) ==
    LET hit == {k \in 1..Len(gs) : obs[gs[k][1]].data = key}
    IN  IF hit = {} THEN 0 ELSE CHOOSE k \in hit : TRUE

\* lines 169-175: groups.setdefault(key, []).append(o), in insertion order
RECURSIVE GroupsLoop(_, _, _)
GroupsLoop(obs, sel, gs) ==
    IF sel = <<>> THEN gs
    ELSE LET o == Head(sel)
             k == GroupOf(obs, gs, obs[o].data)
         IN  IF obs[o].type # "MESH" THEN GroupsLoop(obs, Tail(sel), gs)
             ELSE IF k = 0 THEN GroupsLoop(obs, Tail(sel), Append(gs, <<o>>))
             ELSE GroupsLoop(obs, Tail(sel), [gs EXCEPT ![k] = Append(@, o)])

GroupsByMesh(obs, sel) == GroupsLoop(obs, sel, <<>>)

\* ---------------------------------------------------------------- execute
\* a selection that keeps every selected object, whatever its type
SelectedAnyType(obs) == [i \in 1..Len(obs) |-> i]

\* line 214: sel = [o for o in context.selected_objects if o.type == 'MESH']
SelectedMeshObjects(obs) ==
    SelectSeq([i \in 1..Len(obs) |-> i], LAMBDA i : obs[i].type = "MESH")

\* a representative that is always the group's first member
FirstMember(obs, group) == group[1]

\* lines 224-230: the first member in EDIT mode, else group[0]
ChooseRep(obs, group) ==
    LET ed == {i \in 1..Len(group) : obs[group[i]].mode = "EDIT"}
    IN  IF ed = {} THEN group[1]
        ELSE group[CHOOSE i \in ed : \A j \in ed : i <= j]

\* ------------------------------------------------------------------ state
VARIABLES
    objs,              \* context.selected_objects: [type, mode, data]
    meshUV,            \* per mesh-data identity: the UV layer, face by face
    meshSel,           \* per mesh-data identity: f.select of each face
    meshHasUV,         \* per mesh-data identity: an active UV layer exists
    pc,                \* "idle", "groups", "align", "done"
    result,            \* "NONE", "CANCELLED", "FINISHED", "RAISED"
    runs,              \* invocations of execute so far
    groups,            \* _groups_by_mesh(sel)
    gi,                \* index of the group the for loop of line 222 is at
    rep,               \* the representative of that group
    respect,           \* respect_selection as passed at line 232
    useEdit,           \* the branch process_object took at line 184
    bm,                \* the temporary BMesh of the OBJECT branch
    islands,           \* the list _build_islands returned
    ii,                \* index of the island the for loop of line 152 is at
    total,             \* total of _align_islands_in_bmesh
    total_islands,     \* line 219
    processed_meshes,  \* line 220
    calls,             \* history: process_object calls per mesh identity
    preUV,             \* history: the UV layer when the pass began
    writes,            \* history: times each face's loops were rewritten
    last,              \* history: the last island step of the pass
    startUV,           \* history: meshUV when execute was invoked
    origUV             \* history: meshUV before the first invocation

vars == <<objs, meshUV, meshSel, meshHasUV, pc, result, runs, groups, gi, rep,
          respect, useEdit, bm, islands, ii, total, total_islands,
          processed_meshes, calls, preUV, writes, last, startUV, origUV>>

MeshIds == 1..MaxObjs

NoStep == [kind |-> "none"]

\* the mesh-data identity being processed
CurMesh == objs[rep].data

\* the BMesh the pass reads and writes: the edit-BMesh, which is the mesh's
\* live data (line 185), or the temporary copy (lines 193-195)
WorkUV == IF useEdit THEN meshUV[CurMesh] ELSE bm

\* --------------------------------------------------------------- inputs
FaceQ1r == <<Vec(4, 2), Vec(0, 2), Vec(0, 0), Vec(4, 0)>>
FaceQ2 == <<Vec(0, 2), Vec(4, 2), Vec(4, 4), Vec(0, 4)>>
FaceT == <<Vec(0, 4), Vec(4, 4), Vec(4, 7)>>
FaceV == <<Vec(4, 2), Vec(4, 8), Vec(6, 8), Vec(6, 2)>>
FaceD == <<Vec(9, 9), Vec(9, 9), Vec(9, 9)>>

FaceCatalog == {FaceQ1r, FaceQ2, FaceT, FaceV, FaceD}

SeqsUpTo(S, n) == UNION {[1..k -> S] : k \in 0..n}

MeshObjects == [type : {"MESH"}, mode : {"EDIT", "OBJECT"}, data : MeshIds]
OtherObject == [type |-> "CURVE", mode |-> "OBJECT", data |-> 0]

\* mesh-data identities are opaque: they are numbered in order of first use
IdsInOrder(obs) ==
    \A i \in 1..Len(obs) :
        obs[i].type = "MESH" =>
            obs[i].data <= 1 + Cardinality({obs[j].data : j \in {j \in 1..(i - 1) : obs[j].type = "MESH"}})

UsedIds(obs) == {obs[i].data : i \in {i \in 1..Len(obs) : obs[i].type = "MESH"}}

OpMeshes ==
    { [uv |-> <<FaceV>>, sel |-> <<TRUE>>],
      [uv |-> <<FaceQ1r, FaceD>>, sel |-> <<FALSE, TRUE>>],
      [uv |-> <<FaceQ2, FaceV>>, sel |-> <<FALSE, FALSE>>] }

EmptyMesh == [uv |-> <<>>, sel |-> <<>>]
UnusedMesh == [uv |-> <<FaceV>>, sel |-> <<TRUE>>]

InitControl ==
    /\ pc = "idle"
    /\ result = "NONE"
    /\ runs = 0
    /\ groups = <<>>
    /\ gi = 0
    /\ rep = 0
    /\ respect = FALSE
    /\ useEdit = FALSE
    /\ bm = <<>>
    /\ islands = <<>>
    /\ ii = 0
    /\ total = 0
    /\ total_islands = 0
    /\ processed_meshes = 0
    /\ calls = [m \in MeshIds |-> 0]
    /\ preUV = <<>>
    /\ writes = <<>>
    /\ last = NoStep
    /\ startUV = meshUV
    /\ origUV = meshUV

\* several objects over a few small meshes
Init ==
    /\ objs \in {o \in SeqsUpTo(MeshObjects \cup {OtherObject}, MaxObjs) : IdsInOrder(o)}
    /\ \E ms \in [MeshIds -> OpMeshes \cup {EmptyMesh}] :
          /\ \A m \in UsedIds(objs) : ms[m] # EmptyMesh
          /\ \A m \in MeshIds \ UsedIds(objs) :
                ms[m] \in (IF UsedIds(objs) = {} THEN {EmptyMesh, UnusedMesh} ELSE {EmptyMesh})
          /\ meshUV = [m \in MeshIds |-> ms[m].uv]
          /\ meshSel = [m \in MeshIds |-> ms[m].sel]
    /\ meshHasUV \in {h \in [MeshIds -> BOOLEAN] : \A m \in MeshIds \ UsedIds(objs) : h[m]}
    /\ InitControl

\* one object over every mesh of at most MaxFaces catalog faces
InitMesh ==
    /\ objs \in SeqsUpTo({o \in MeshObjects : o.data = 1} \cup {OtherObject}, 1)
    /\ \E uv \in SeqsUpTo(FaceCatalog, MaxFaces) :
       \E sel \in [1..Len(uv) -> BOOLEAN] :
          /\ UsedIds(objs) = {} => Len(uv) = 0
          /\ (objs # <<>> /\ objs[1].mode = "OBJECT") => \A f \in 1..Len(uv) : ~sel[f]
          /\ meshUV = [m \in MeshIds |-> IF m = 1 THEN uv ELSE <<>>]
          /\ meshSel = [m \in MeshIds |-> IF m = 1 THEN sel ELSE <<>>]
    /\ meshHasUV \in {h \in [MeshIds -> BOOLEAN] :
                        /\ \A m \in MeshIds \ {1} : h[m]
                        /\ ~h[1] => Len(meshUV[1]) <= 1}
    /\ InitControl

\* ---------------------------------------------------------------- actions
passVars == <<rep, respect, useEdit, bm, islands, ii, total, preUV, writes, last>>
meshVars == <<objs, meshSel, meshHasUV, origUV>>

ResetPass ==
    /\ rep' = 0
    /\ respect' = FALSE
    /\ useEdit' = FALSE
    /\ bm' = <<>>
    /\ islands' = <<>>
    /\ ii' = 0
    /\ total' = 0
    /\ preUV' = <<>>
    /\ writes' = <<>>
    /\ last' = NoStep

\* execute, lines 214-217: nothing of type MESH is selected
ExecuteCancelled ==
    /\ pc \in {"idle", "done"}
    /\ runs < MaxRuns
    /\ SelectedMeshObjects(objs) = <<>>
    /\ runs' = runs + 1
    /\ result' = "CANCELLED"
    /\ pc' = "done"
    /\ groups' = <<>>
    /\ gi' = 0
    /\ total_islands' = 0
    /\ processed_meshes' = 0
    /\ calls' = [m \in MeshIds |-> 0]
    /\ startUV' = meshUV
    /\ ResetPass
    /\ UNCHANGED <<meshVars, meshUV>>

\* execute, lines 214-222: the groups are built and the loop is entered
ExecuteStart ==
    /\ pc \in {"idle", "done"}
    /\ runs < MaxRuns
    /\ SelectedMeshObjects(objs) # <<>>
    /\ runs' = runs + 1
    /\ result' = "NONE"
    /\ pc' = "groups"
    /\ groups' = GroupsByMesh(objs, SelectedMeshObjects(objs))
    /\ gi' = 1
    /\ total_islands' = 0
    /\ processed_meshes' = 0
    /\ calls' = [m \in MeshIds |-> 0]
    /\ startUV' = meshUV
    /\ ResetPass
    /\ UNCHANGED <<meshVars, meshUV>>

\* lines 222-232, 178-197, 149-151 on a mesh without an active UV layer:
\* _active_uv_layer raises RuntimeError, which nothing up to execute catches
\* (the finally of line 201 frees the temporary BMesh).  The return of
\* line 181 is never taken: execute passes objects of type MESH only.
ProcessObjectRaise ==
    /\ pc = "groups"
    /\ gi <= Len(groups)
    /\ LET r == ChooseRep(objs, groups[gi])
           m == objs[r].data
       IN  /\ objs[r].type = "MESH"
           /\ ~meshHasUV[m]
           /\ rep' = r
           /\ respect' = (objs[r].mode = "EDIT")
           /\ useEdit' = (objs[r].mode = "EDIT")
           /\ calls' = [calls EXCEPT ![m] = @ + 1]
    /\ bm' = <<>>
    /\ islands' = <<>>
    /\ ii' = 0
    /\ total' = 0
    /\ preUV' = <<>>
    /\ writes' = <<>>
    /\ last' = NoStep
    /\ result' = "RAISED"
    /\ pc' = "done"
    /\ UNCHANGED <<meshVars, meshUV, runs, groups, gi, total_islands,
                   processed_meshes, startUV>>

\* lines 222-232, 178-197, 149-151: the representative is chosen, its BMesh
\* obtained and the islands built
ProcessObjectBegin ==
    /\ pc = "groups"
    /\ gi <= Len(groups)
    /\ LET r == ChooseRep(objs, groups[gi])
           m == objs[r].data
           edit == (objs[r].mode = "EDIT")
       IN  /\ objs[r].type = "MESH"
           /\ meshHasUV[m]
           /\ rep' = r
           /\ respect' = edit
           /\ useEdit' = edit
           /\ bm' = IF edit THEN <<>> ELSE meshUV[m]
           /\ islands' = BuildIslands(meshUV[m], meshSel[m], edit)
           /\ preUV' = meshUV[m]
           /\ writes' = [f \in 1..Len(meshUV[m]) |-> 0]
           /\ calls' = [calls EXCEPT ![m] = @ + 1]
    /\ ii' = 1
    /\ total' = 0
    /\ last' = NoStep
    /\ pc' = "align"
    /\ UNCHANGED <<meshVars, meshUV, result, runs, groups, gi, total_islands,
                   processed_meshes, startUV>>

\* lines 152-158: the island's longest edge has length 0 and it is skipped.
\* Line 153 never
\* skips: _build_islands returns no empty set.
AlignIslandSkip ==
    /\ pc = "align"
    /\ ii <= Len(islands)
    /\ \E e \in FoundEdges(WorkUV, islands[ii]) :
          LET d == VSub(e[2], e[1])
          IN  /\ IsZeroEdge(d)
              /\ last' = [kind |-> "skip", isl |-> islands[ii], a |-> e[1], b |-> e[2],
                          ang |-> ZeroAngle, before |-> WorkUV]
    /\ ii' = ii + 1
    /\ UNCHANGED <<meshVars, meshUV, pc, result, runs, groups, gi, rep, respect,
                   useEdit, bm, islands, total, total_islands, processed_meshes,
                   calls, preUV, writes, startUV>>

\* lines 152-162: the island is rotated about its centroid
AlignIslandRotate ==
    /\ pc = "align"
    /\ ii <= Len(islands)
    /\ \E e \in FoundEdges(WorkUV, islands[ii]) :
          LET isl == islands[ii]
              d == VSub(e[2], e[1])
              ang == AlignAngle(d)
              pivot == IslandCentroidUV(WorkUV, isl)
              new == RotateIsland(WorkUV, isl, ang, pivot)
          IN  /\ ~IsZeroEdge(d)
              /\ IF useEdit
                 THEN /\ meshUV' = [meshUV EXCEPT ![CurMesh] = new]
                      /\ bm' = bm
                 ELSE /\ bm' = new
                      /\ meshUV' = meshUV
              /\ writes' = [f \in 1..Len(writes) |-> IF f \in isl THEN writes[f] + 1 ELSE writes[f]]
              /\ last' = [kind |-> "rotate", isl |-> isl, a |-> e[1], b |-> e[2],
                          ang |-> ang, before |-> WorkUV]
    /\ total' = total + 1
    /\ ii' = ii + 1
    /\ UNCHANGED <<meshVars, pc, result, runs, groups, gi, rep, respect, useEdit,
                   islands, total_islands, processed_meshes, calls, preUV, startUV>>

\* lines 163, 188-189, 198-202, 232-233: the pass returns its count; the
\* OBJECT branch writes the temporary BMesh back and frees it
ProcessObjectEnd ==
    /\ pc = "align"
    /\ ii > Len(islands)
    /\ meshUV' = IF useEdit THEN meshUV ELSE [meshUV EXCEPT ![CurMesh] = bm]
    /\ bm' = <<>>
    /\ total_islands' = total_islands + total
    /\ processed_meshes' = processed_meshes + 1
    /\ gi' = gi + 1
    /\ pc' = "groups"
    /\ UNCHANGED <<meshVars, result, runs, groups, rep, respect, useEdit, islands,
                   ii, total, calls, preUV, writes, last, startUV>>

\* lines 235-236: the summary is reported
ExecuteFinish ==
    /\ pc = "groups"
    /\ gi > Len(groups)
    /\ result' = "FINISHED"
    /\ pc' = "done"
    /\ UNCHANGED <<meshVars, meshUV, runs, groups, gi, passVars, total_islands,
                   processed_meshes, calls, startUV>>

Next ==
    \/ ExecuteCancelled
    \/ ExecuteStart
    \/ ProcessObjectRaise
    \/ ProcessObjectBegin
    \/ AlignIslandSkip
    \/ AlignIslandRotate
    \/ ProcessObjectEnd
    \/ ExecuteFinish

Spec == Init /\ [][Next]_vars

SpecMesh == InitMesh /\ [][Next]_vars

\* ------------------------------------------------------------ properties
Faces(uvs) == 1..Len(uvs)
IslandFaces == UNION {islands[k] : k \in 1..Len(islands)}
NoMeshSelected == \A i \in 1..Len(objs) : objs[i].type # "MESH"
HasEdit(group) == \E i \in 1..Len(group) : objs[group[i]].mode = "EDIT"

\* a pass has begun in this invocation: its history variables are set
PassSeen == rep # 0 /\ result # "RAISED"

\* the UV layer the pass has produced so far
PassUV == IF pc = "align" THEN WorkUV ELSE meshUV[CurMesh]

PassDone == PassSeen /\ (pc # "align" \/ ii > Len(islands))

\* C2: when execute has ended on a selection with mesh objects, process_object
\* was called exactly once for every mesh-data identity a selected mesh
\* object references, and never for any other.
C2_EachMeshOnce ==
    (pc = "done" /\ ~NoMeshSelected) =>
        \A m \in MeshIds : calls[m] = (IF m \in UsedIds(objs) THEN 1 ELSE 0)

\* C3: an invocation on a selection with mesh objects always ends with its
\* summary (FINISHED), every group counted, also when a mesh has no UV layer.
C3_NoUVLayerIsSkipped ==
    (pc = "done" /\ ~NoMeshSelected) =>
        /\ result = "FINISHED"
        /\ processed_meshes = Len(groups)

\* C4: an invocation with no object of type MESH selected ends CANCELLED,
\* with no call of process_object and every UV layer as it was.
C4_NoSelectionCancels ==
    (runs > 0 /\ NoMeshSelected) =>
        /\ pc = "done"
        /\ result = "CANCELLED"
        /\ \A m \in MeshIds : calls[m] = 0
        /\ meshUV = startUV
        /\ rep = 0

C4_Witness ==
    /\ result = "CANCELLED"
    /\ Len(objs) > 0
    /\ \E m \in MeshIds : meshUV[m] # <<>>

\* C7: while a group is processed, its representative is a member of the
\* group; it is in EDIT mode if any member is, and then the pass works on the
\* selected faces only; otherwise the pass works on the whole mesh; the mode
\* the representative was classified with (lines 232 and 184) is its mode.
C7_EditRepresentativePreferred ==
    pc = "align" =>
        LET g == groups[gi]
            selected == {f \in Faces(preUV) : meshSel[CurMesh][f]}
        IN  /\ rep \in Range(g)
            /\ respect = (objs[rep].mode = "EDIT")
            /\ useEdit = respect
            /\ HasEdit(g) => /\ objs[rep].mode = "EDIT"
                             /\ IslandFaces = selected
            /\ ~HasEdit(g) => /\ objs[rep].mode = "OBJECT"
                              /\ IslandFaces = Faces(preUV)

C7_Witness ==
    /\ pc = "align"
    /\ Len(groups[gi]) > 1
    /\ objs[groups[gi][1]].mode = "OBJECT"
    /\ objs[rep].mode = "EDIT"
    /\ IslandFaces # {}
    /\ IslandFaces # Faces(preUV)

\* the two faces present a common UV edge key
ShareKey(uvs, f, g) ==
    Range(FaceUVEdgeKeys(uvs[f])) \cap Range(FaceUVEdgeKeys(uvs[g])) # {}

\* the faces of F linked to a face of S by a chain of faces of F in which
\* consecutive faces share an edge key
RECURSIVE Linked(_, _, _)
Linked(uvs, F, S) ==
    LET T == S \cup {g \in F : \E h \in S : ShareKey(uvs, h, g)}
    IN  IF T = S THEN S ELSE Linked(uvs, F, T)

\* the face set the build works on: all faces, or the selected ones
BuildInput == IF useEdit THEN {f \in Faces(preUV) : meshSel[CurMesh][f]} ELSE Faces(preUV)

SameIsland(f, g) == \E k \in 1..Len(islands) : f \in islands[k] /\ g \in islands[k]

\* _build_islands has just returned
JustBuilt == PassSeen /\ pc = "align" /\ ii = 1

\* C1: the islands _build_islands returns are the connected components of
\* the input face set under 'share a UV edge key': they are non-empty,
\* pairwise disjoint, their union is the input set, and two faces are in one
\* island iff a chain of faces of the input set links them.
C1_IslandsAreComponents ==
    JustBuilt =>
        /\ IslandFaces = BuildInput
        /\ \A k \in 1..Len(islands) : islands[k] # {}
        /\ \A k, j \in 1..Len(islands) : k # j => islands[k] \cap islands[j] = {}
        /\ \A f, g \in BuildInput : SameIsland(f, g) <=> g \in Linked(preUV, BuildInput, {f})

C1_Witness ==
    /\ JustBuilt
    /\ Len(islands) > 0
    /\ \E f, g \in BuildInput : SameIsland(f, g) /\ ~ShareKey(preUV, f, g)

\* every loop of every face of the island has the same UV coordinate
Degenerate(uvs, isl) == Cardinality(UNION {Range(uvs[f]) : f \in isl}) = 1

DoneIslands == {k \in 1..Len(islands) : k < ii}

\* C5 as stated: the count the pass returns equals the number of islands
\* built, degenerate islands included.
C5_CountIncludesDegenerate ==
    PassDone => total = Len(islands)

\* C5 as amended: a degenerate island is left as it was, every other island
\* the loop has reached is rotated (once), and the count is the number of
\* the islands rotated: a degenerate island is not counted.
C5_DegenerateSkippedNotCounted ==
    PassSeen =>
        /\ \A k \in DoneIslands : \A f \in islands[k] :
              IF Degenerate(preUV, islands[k])
              THEN writes[f] = 0 /\ PassUV[f] = preUV[f]
              ELSE writes[f] = 1
        /\ total = Cardinality({k \in DoneIslands : ~Degenerate(preUV, islands[k])})

C5_Witness ==
    /\ PassDone
    /\ \E k, j \in 1..Len(islands) :
          /\ k < j
          /\ Degenerate(preUV, islands[k])
          /\ \E f \in islands[j] : writes[f] = 1 /\ PassUV[f] # preUV[f]

\* C6: in EDIT mode with no face selected the islands are those of the
\* whole mesh.
C6_NothingSelectedMeansAll ==
    (PassSeen /\ useEdit /\ \A f \in Faces(preUV) : ~meshSel[CurMesh][f]) =>
        islands = BuildIslands(preUV, meshSel[CurMesh], FALSE)

\* the loops <<face, position>> of the faces F
Loops(uvs, F) == UNION {{<<f, l>> : l \in 1..Len(uvs[f])} : f \in F}

\* C8 as stated: loops of the processed faces with equal UV before the pass
\* have equal UV after it, whether in one island or in two.
C8_CoincidencePreservedAcrossIslands ==
    PassDone =>
        \A p, q \in Loops(preUV, IslandFaces) :
            preUV[p[1]][p[2]] = preUV[q[1]][q[2]] => PassUV[p[1]][p[2]] = PassUV[q[1]][q[2]]

\* C8 as amended: loops of one island with equal UV before the pass have
\* equal UV at every point of the pass and after it.
C8_CoincidencePreservedInIsland ==
    PassSeen =>
        \A p, q \in Loops(preUV, IslandFaces) :
            (SameIsland(p[1], q[1]) /\ preUV[p[1]][p[2]] = preUV[q[1]][q[2]])
                => PassUV[p[1]][p[2]] = PassUV[q[1]][q[2]]

C8_Witness ==
    /\ PassDone
    /\ \E p, q \in Loops(preUV, IslandFaces) :
          /\ p[1] # q[1]
          /\ SameIsland(p[1], q[1])
          /\ preUV[p[1]][p[2]] = preUV[q[1]][q[2]]
          /\ PassUV[p[1]][p[2]] # preUV[p[1]][p[2]]

\* the island's edges, as <<u, v>> from a loop to its successor
Edges(uvs, isl) ==
    {<<uvs[p[1]][p[2]], NextLoop(uvs[p[1]], p[2])>> : p \in Loops(uvs, isl)}

LongestEdges(uvs, isl) ==
    {e \in Edges(uvs, isl) :
        \A o \in Edges(uvs, isl) :
            ~RLt(LengthSquared(VSub(e[2], e[1])), LengthSquared(VSub(o[2], o[1])))}

\* every longest edge of the island is horizontal and of positive length
LongestHorizontal(uvs, isl) ==
    \A e \in LongestEdges(uvs, isl) : e[1][2] = e[2][2] /\ e[1][1] # e[2][1]

IslandUnchanged(step) == \A f \in step.isl : PassUV[f] = step.before[f]

\* C9 as stated: an island whose longest UV edge is horizontal gets the
\* angle 0 and keeps every UV coordinate.
C9_HorizontalMeansNoRotation ==
    (PassSeen /\ last.kind = "rotate" /\ LongestHorizontal(last.before, last.isl)) =>
        /\ last.ang = ZeroAngle
        /\ IslandUnchanged(last)

\* C9 as amended: an island whose longest edge as found (from a loop to its
\* successor) is horizontal and points in +x gets the angle 0 and keeps every
\* UV coordinate.
C9_AlignedPlusXMeansNoRotation ==
    (PassSeen /\ last.kind = "rotate"
        /\ last.a[2] = last.b[2] /\ RLt(last.a[1], last.b[1])) =>
        /\ last.ang = ZeroAngle
        /\ IslandUnchanged(last)

\* a second invocation meets an island that the first one has turned
C9_Witness ==
    /\ PassSeen
    /\ runs = 2
    /\ last.kind = "rotate"
    /\ last.a[2] = last.b[2] /\ RLt(last.a[1], last.b[1])
    /\ last.ang = ZeroAngle
    /\ \E f \in last.isl : origUV[CurMesh][f] # PassUV[f]

\* C10: in EDIT mode with a face selected, the islands hold selected faces
\* only, an unselected face keeps the UV of every loop, and the loops of a
\* selected face are rewritten by at most one rotation.
C10_SelectionFrame ==
    (PassSeen /\ useEdit /\ \E f \in Faces(preUV) : meshSel[CurMesh][f]) =>
        \A f \in Faces(preUV) :
            IF meshSel[CurMesh][f]
            THEN writes[f] <= 1
            ELSE /\ f \notin IslandFaces
                 /\ writes[f] = 0
                 /\ PassUV[f] = preUV[f]

C10_Witness ==
    /\ PassDone
    /\ useEdit
    /\ \E f, g \in Faces(preUV) :
          /\ meshSel[CurMesh][f] /\ writes[f] = 1 /\ PassUV[f] # preUV[f]
          /\ ~meshSel[CurMesh][g] /\ ShareKey(preUV, f, g)

====
